---- MODULE Spec2Model ----
(***************************************************************************)
(* Model of mldsutils.pipeline.Pipeline: a pipeline of transformers and    *)
(* resamplers with a final estimator.  One action per public operation     *)
(* (fit, fit_transform, fit_resample, fit_predict, predict, predict_proba, *)
(* transform); every action runs the whole handler, validation and the     *)
(* step loop included.                                                     *)
(*                                                                         *)
(* Data: a feature matrix X is a sequence of rows, a row is a number in    *)
(* 1..MaxVal; the label vector y is a sequence of the same length.  Row    *)
(* indices reported by a resampler are 0-based, as in the code.            *)
(***************************************************************************)
EXTENDS Integers, Sequences, FiniteSets, TLC

\* Bounds of the model.
MaxInter == 2        \* at most this many intermediate (non-final) steps
MaxRows == 2         \* at most this many rows in a data set
MaxVal == 2          \* row values are 1..MaxVal

(***************************************************************************)
(* Values                                                                  *)
(***************************************************************************)
\* Python None / a value, for to_keep_ind and outliers.
NoneVal == [some |-> FALSE, val |-> <<>>]
Some(v) == [some |-> TRUE, val |-> v]

EmptyData == << >>

\* A step object.  kind "obj" is an estimator instance with the set of
\* method names hasattr() finds on it; kinds "None" and "passthrough" are the
\* two placeholders.  id is the identity of the user-supplied instance,
\* clone tells a clone() of it from the instance itself, fitted tells whether
\* one of its fit methods has run.  lazy is the behaviour of a resampler's
\* transform at prediction time (see ResamplerTransform).  raises tells a
\* step whose methods raise an exception when they are called.
Estimator(caps, isPipe, lazy) ==
    [kind |-> "obj", caps |-> caps, isPipe |-> isPipe, lazy |-> lazy,
     id |-> 0, clone |-> FALSE, fitted |-> FALSE, raises |-> FALSE]
Placeholder(k) ==
    [kind |-> k, caps |-> {}, isPipe |-> FALSE, lazy |-> FALSE,
     id |-> 0, clone |-> FALSE, fitted |-> FALSE, raises |-> FALSE]

\* the step t with methods that raise
Raising(t) == [t EXCEPT !.raises = TRUE]

NoneStep == Placeholder("None")
PassthroughStep == Placeholder("passthrough")

\* t is None or t == "passthrough"
IsPassthrough(t) == t.kind = "None" \/ t.kind = "passthrough"

\* hasattr(t, a) for the method names the pipeline inspects
HasAttr(t, a) == t.kind = "obj" /\ a \in t.caps

\* sklearn.base.clone: a new unfitted instance with the same parameters
clone(t) == [t EXCEPT !.clone = TRUE, !.fitted = FALSE]

\* the instance after one of its fit methods has run (fit returns self)
Fitted(t) == [t EXCEPT !.fitted = TRUE]

(***************************************************************************)
(* The user-supplied steps (external collaborators)                        *)
(***************************************************************************)
\* A transformer maps features to features row by row, row count unchanged.
TransformRow(x) == (x % MaxVal) + 1

RECURSIVE MapRows(_)
MapRows(X) ==
    IF X = << >> THEN << >>
    ELSE <<TransformRow(Head(X))>> \o MapRows(Tail(X))

\* A resampler removes the rows it marks as outliers.
IsOutlier(x) == x = MaxVal

\* 1-based positions of the rows of X a resampler keeps / removes, ascending
RECURSIVE Positions(_, _, _)
Positions(X, i, keep) ==
    IF i > Len(X) THEN << >>
    ELSE (IF IsOutlier(X[i]) = keep THEN << >> ELSE <<i>>)
         \o Positions(X, i + 1, keep)

KeptPos(X) == Positions(X, 1, TRUE)
OutlierPos(X) == Positions(X, 1, FALSE)

\* the entries of s at the given positions
Pick(s, pos) == [k \in 1..Len(pos) |-> s[pos[k]]]

\* positions as the 0-based indices the resampler reports
ZeroBased(pos) == [k \in 1..Len(pos) |-> pos[k] - 1]

\* X, y = sampler.fit_resample(X, y)
ResamplerFitResample(X, y) ==
    [X |-> Pick(X, KeptPos(X)),
     y |-> IF Len(y) = Len(X) THEN Pick(y, KeptPos(X)) ELSE y]

\* Xt, to_keep_ind, outliers = resampler.transform(Xt) at prediction time:
\* the kept rows with the kept-row and excluded-row indices.  A lazy
\* resampler that finds no row to remove returns the rows as they are and
\* None for both.
ResamplerTransform(t, X) ==
    IF t.lazy /\ OutlierPos(X) = << >>
    THEN [X |-> X, to_keep_ind |-> NoneVal, outliers |-> NoneVal]
    ELSE [X |-> Pick(X, KeptPos(X)),
          to_keep_ind |-> Some(ZeroBased(KeptPos(X))),
          outliers |-> Some(ZeroBased(OutlierPos(X)))]

\* the final estimator's prediction for one (transformed) row
PredictRow(x) == 0 - x

RECURSIVE PredictRows(_)
PredictRows(X) ==
    IF X = << >> THEN << >>
    ELSE <<PredictRow(Head(X))>> \o PredictRows(Tail(X))

(***************************************************************************)
(* Calls and results                                                       *)
(***************************************************************************)
\* One method call on a step: the index of the step, the method, the
\* positional arguments (X, and y when nargs = 2), the keyword parameters
\* routed to it, and for a resampler's transform the kept-row and
\* excluded-row indices it returned (NoRet for every other call).
Call(idx, method, X, nargs, y, params, ret) ==
    [step |-> idx, method |-> method, X |-> X, nargs |-> nargs, y |-> y,
     params |-> params, ret |-> ret]

NoRet == [to_keep_ind |-> NoneVal, outliers |-> NoneVal]

\* Return values: an array (features or predictions), a pair (X, y), the
\* pipeline itself, or None.
Array(X) == [shape |-> "array", X |-> X, y |-> EmptyData]
Pair(X, y) == [shape |-> "pair", X |-> X, y |-> y]
SelfVal == [shape |-> "self", X |-> EmptyData, y |-> EmptyData]
NoVal == [shape |-> "none", X |-> EmptyData, y |-> EmptyData]

(***************************************************************************)
(* Pipeline._validate_steps                                                *)
(***************************************************************************)
\* ValidateTransformer with the rejection of a step that has both
\* fit_resample and transform/fit_transform (the check the code has
\* commented out)
ValidateTransformerStrict(t) ==
    IF IsPassthrough(t) THEN "ok"
    ELSE IF \/ ~(\/ HasAttr(t, "fit")
                 \/ HasAttr(t, "fit_transform")
                 \/ HasAttr(t, "fit_resample"))
            \/ ~(HasAttr(t, "transform") \/ HasAttr(t, "fit_resample"))
         THEN "TypeError"
    ELSE IF /\ HasAttr(t, "fit_resample")
            /\ (HasAttr(t, "fit_transform") \/ HasAttr(t, "transform"))
         THEN "TypeError"
    ELSE IF t.isPipe THEN "TypeError"
    ELSE "ok"

\* ValidateTransformer without the check of the capabilities
ValidateTransformerNoCaps(t) ==
    IF IsPassthrough(t) THEN "ok"
    ELSE IF t.isPipe THEN "TypeError"
    ELSE "ok"

\* ValidateTransformer without the check for nested pipelines
ValidateTransformerNoPipe(t) ==
    IF IsPassthrough(t) THEN "ok"
    ELSE IF \/ ~(\/ HasAttr(t, "fit")
                 \/ HasAttr(t, "fit_transform")
                 \/ HasAttr(t, "fit_resample"))
            \/ ~(HasAttr(t, "transform") \/ HasAttr(t, "fit_resample"))
         THEN "TypeError"
    ELSE "ok"

\* the checks made on one intermediate step t: "ok" or the error raised
ValidateTransformer(t) ==
    IF IsPassthrough(t) THEN "ok"
    ELSE IF \/ ~(\/ HasAttr(t, "fit")
                 \/ HasAttr(t, "fit_transform")
                 \/ HasAttr(t, "fit_resample"))
            \/ ~(HasAttr(t, "transform") \/ HasAttr(t, "fit_resample"))
         THEN "TypeError"
    ELSE IF t.isPipe THEN "TypeError"
    ELSE "ok"

\* the check made on the last step
ValidateFinal(e) ==
    IF e.kind /= "None" /\ e.kind /= "passthrough" /\ ~HasAttr(e, "fit")
    THEN "TypeError" ELSE "ok"

\* for t in transformers: ... ; the first error raised wins
RECURSIVE ValidateFrom(_, _)
ValidateFrom(steps_, i) ==
    IF i > Len(steps_) - 1 THEN ValidateFinal(steps_[Len(steps_)].est)
    ELSE IF ValidateTransformer(steps_[i].est) /= "ok"
         THEN ValidateTransformer(steps_[i].est)
    ELSE ValidateFrom(steps_, i + 1)

_validate_steps(steps_) == ValidateFrom(steps_, 1)

(***************************************************************************)
(* Pipeline._fit                                                           *)
(***************************************************************************)
\* self._final_estimator: 'passthrough' when the last step is None
_final_estimator(steps_) ==
    IF steps_[Len(steps_)].est.kind = "None" THEN PassthroughStep
    ELSE steps_[Len(steps_)].est

\* fit_params_steps = {name: {} for name, step in self.steps
\*                     if step is not None}
InitFitParams(steps_) ==
    [nm \in {steps_[i].name :
                i \in {j \in 1..Len(steps_) : steps_[j].est.kind /= "None"}}
        |-> {}]

\* for pname, pval in fit_params.items(): a keyword argument is its name
\* split at the first '__' (sep tells whether the name contains one).
\* RouteFitParams that passes over a name without '__' instead of raising
RECURSIVE RouteFitParamsLenient(_, _, _)
RouteFitParamsLenient(fps, kw, k) ==
    IF k > Len(kw) THEN [outcome |-> "ok", fps |-> fps]
    ELSE IF ~kw[k].sep THEN RouteFitParamsLenient(fps, kw, k + 1)
    ELSE IF kw[k].step \notin DOMAIN fps
         THEN [outcome |-> "KeyError", fps |-> fps]
    ELSE RouteFitParamsLenient(
             [fps EXCEPT ![kw[k].step] = @ \cup {kw[k].param}], kw, k + 1)

RECURSIVE RouteFitParams(_, _, _)
RouteFitParams(fps, kw, k) ==
    IF k > Len(kw) THEN [outcome |-> "ok", fps |-> fps]
    ELSE IF ~kw[k].sep THEN [outcome |-> "ValueError", fps |-> fps]
    ELSE IF kw[k].step \notin DOMAIN fps
         THEN [outcome |-> "KeyError", fps |-> fps]
    ELSE RouteFitParams([fps EXCEPT ![kw[k].step] = @ \cup {kw[k].param}],
                        kw, k + 1)

NoFT == [some |-> FALSE, val |-> NoneStep]

\* pipeline._fit_transform_one (host framework): fit_transform when the
\* transformer has it, fit(...).transform(X) otherwise.
_fit_transform_one(t, idx, X, y, params) ==
    IF t.raises /\ (HasAttr(t, "fit_transform") \/ HasAttr(t, "fit"))
    THEN [outcome |-> "StepError", X |-> X, fitted |-> t,
          calls |-> <<Call(idx,
                           IF HasAttr(t, "fit_transform") THEN "fit_transform"
                           ELSE "fit",
                           X, 2, y, params, NoRet)>>]
    ELSE IF HasAttr(t, "fit_transform")
    THEN [outcome |-> "ok", X |-> MapRows(X), fitted |-> Fitted(t),
          calls |-> <<Call(idx, "fit_transform", X, 2, y, params, NoRet)>>]
    ELSE IF ~HasAttr(t, "fit")
    THEN [outcome |-> "AttributeError", X |-> X, fitted |-> t,
          calls |-> << >>]
    ELSE IF ~HasAttr(t, "transform")
    THEN [outcome |-> "AttributeError", X |-> X, fitted |-> Fitted(t),
          calls |-> <<Call(idx, "fit", X, 2, y, params, NoRet)>>]
    ELSE [outcome |-> "ok", X |-> MapRows(X), fitted |-> Fitted(t),
          calls |-> <<Call(idx, "fit", X, 2, y, params, NoRet),
                      Call(idx, "transform", X, 1, EmptyData, {}, NoRet)>>]

\* _fit_resample_one: X_res, y_res = sampler.fit_resample(X, y, **fit_params)
_fit_resample_one(t, idx, X, y, params) ==
    IF t.raises
    THEN [outcome |-> "StepError", X |-> X, y |-> y, fitted |-> t,
          calls |-> <<Call(idx, "fit_resample", X, 2, y, params, NoRet)>>]
    ELSE [outcome |-> "ok",
          X |-> ResamplerFitResample(X, y).X,
          y |-> ResamplerFitResample(X, y).y,
          fitted |-> Fitted(t),
          calls |-> <<Call(idx, "fit_resample", X, 2, y, params, NoRet)>>]

\* the user-supplied instances a fit method ran on
TouchedBy(t) == IF t.clone THEN {} ELSE {t.id}

\* The running state after the fit call of step idx returned r (or
\* raised): Xt (and yt, for a resampler) replaced, the step's entry replaced
\* by the fitted transformer; nothing assigned when the call raised.
FitStepDone(st, idx, cloned_transformer, r, resampled) ==
    IF r.outcome = "ok"
    THEN [st EXCEPT !.X = r.X,
                    !.y = IF resampled THEN r.y ELSE @,
                    !.calls = @ \o r.calls,
                    !.ft = [some |-> TRUE, val |-> r.fitted],
                    !.touched = @ \cup TouchedBy(cloned_transformer),
                    !.steps[idx].est = r.fitted]
    ELSE [st EXCEPT !.outcome = r.outcome,
                    !.calls = @ \o r.calls,
                    !.touched = @ \cup
                        (IF r.calls = << >> \/ ~r.fitted.fitted THEN {}
                         ELSE TouchedBy(cloned_transformer))]

\* FitStep that fits the instance in the list even with a caching location
FitStepNeverClones(st, mem, fps, idx) ==
    LET name == st.steps[idx].name
        transformer == st.steps[idx].est
        cloned_transformer == transformer
        pars == IF name \in DOMAIN fps THEN fps[name] ELSE {}
    IN
    IF IsPassthrough(transformer) THEN st
    ELSE IF /\ (\/ HasAttr(cloned_transformer, "transform")
                \/ HasAttr(cloned_transformer, "fit_transform"))
            /\ ~HasAttr(cloned_transformer, "fit_resample")
    THEN FitStepDone(st, idx, cloned_transformer,
                     _fit_transform_one(cloned_transformer, idx, st.X, st.y,
                                        pars),
                     FALSE)
    ELSE IF HasAttr(cloned_transformer, "fit_resample")
    THEN FitStepDone(st, idx, cloned_transformer,
                     _fit_resample_one(cloned_transformer, idx, st.X, st.y,
                                       pars),
                     TRUE)
    ELSE IF st.ft.some THEN [st EXCEPT !.steps[idx].est = st.ft.val]
    ELSE [st EXCEPT !.outcome = "UnboundLocalError"]

\* One iteration of the loop over the intermediate steps, for step idx in
\* the running state st = [outcome, steps, X, y, calls, ft, touched].
FitStep(st, mem, fps, idx) ==
    LET name == st.steps[idx].name
        transformer == st.steps[idx].est
        cloned_transformer == IF mem THEN clone(transformer) ELSE transformer
        pars == IF name \in DOMAIN fps THEN fps[name] ELSE {}
    IN
    IF IsPassthrough(transformer) THEN st
    ELSE IF /\ (\/ HasAttr(cloned_transformer, "transform")
                \/ HasAttr(cloned_transformer, "fit_transform"))
            /\ ~HasAttr(cloned_transformer, "fit_resample")
    THEN FitStepDone(st, idx, cloned_transformer,
                     _fit_transform_one(cloned_transformer, idx, st.X, st.y,
                                        pars),
                     FALSE)
    ELSE IF HasAttr(cloned_transformer, "fit_resample")
    THEN FitStepDone(st, idx, cloned_transformer,
                     _fit_resample_one(cloned_transformer, idx, st.X, st.y,
                                       pars),
                     TRUE)
    \* neither branch: fitted_transformer is whatever an earlier iteration
    \* left in it, or unbound
    ELSE IF st.ft.some THEN [st EXCEPT !.steps[idx].est = st.ft.val]
    ELSE [st EXCEPT !.outcome = "UnboundLocalError"]

\* FitLoop that goes on with the next steps after a step has raised
RECURSIVE FitLoopContinues(_, _, _, _)
FitLoopContinues(st, mem, fps, idx) ==
    IF idx > Len(st.steps) - 1 \/ st.outcome \notin {"ok", "StepError"} THEN st
    ELSE FitLoopContinues(FitStep(st, mem, fps, idx), mem, fps, idx + 1)

RECURSIVE FitLoop(_, _, _, _)
FitLoop(st, mem, fps, idx) ==
    IF idx > Len(st.steps) - 1 \/ st.outcome /= "ok" THEN st
    ELSE FitLoop(FitStep(st, mem, fps, idx), mem, fps, idx + 1)

\* Pipeline._fit: validation, routing of the fit parameters, the loop;
\* returns Xt, yt and the fit parameters of the last step.
_fit(steps_, mem, X, y, kw) ==
    LET st0 == [outcome |-> "ok", steps |-> steps_, X |-> X, y |-> y,
                calls |-> << >>, ft |-> NoFT, touched |-> {},
                final_params |-> {}]
        routed == RouteFitParams(InitFitParams(steps_), kw, 1)
    IN
    IF _validate_steps(steps_) /= "ok"
    THEN [st0 EXCEPT !.outcome = _validate_steps(steps_)]
    ELSE IF routed.outcome /= "ok"
    THEN [st0 EXCEPT !.outcome = routed.outcome]
    ELSE LET st == FitLoop(st0, mem, routed.fps, 1)
         IN  IF st.outcome /= "ok" THEN st
             ELSE IF _final_estimator(st.steps).kind = "passthrough" THEN st
             ELSE [st EXCEPT !.final_params =
                                routed.fps[st.steps[Len(st.steps)].name]]

(***************************************************************************)
(* The public operations, as functions of the pipeline and the arguments.  *)
(* Each returns what the call does: the exception raised or "ok", the step *)
(* list, the calls made on the steps, the value returned, the values       *)
(* written to to_keep_ind and outliers (wrote tells whether they were      *)
(* written), and the user-supplied instances that were fitted.             *)
(***************************************************************************)
Effect(outcome, steps_, calls_, val, touched) ==
    [outcome |-> outcome, steps |-> steps_, calls |-> calls_, val |-> val,
     wrote |-> FALSE, to_keep_ind |-> NoneVal, outliers |-> NoneVal,
     touched |-> touched]

Raise(err, steps_) == Effect(err, steps_, << >>, NoVal, {})

\* the step list with its last estimator fitted
WithFinalFitted(steps_) ==
    [steps_ EXCEPT ![Len(steps_)].est = Fitted(@)]

FinalIdx(steps_) == Len(steps_)

fit(steps_, mem, X, y, kw) ==
    LET f == _fit(steps_, mem, X, y, kw)
        last_step == _final_estimator(f.steps)
    IN
    IF f.outcome /= "ok"
    THEN Effect(f.outcome, f.steps, f.calls, NoVal, f.touched)
    ELSE IF last_step.kind /= "passthrough"
    THEN Effect("ok", WithFinalFitted(f.steps),
                f.calls \o <<Call(FinalIdx(steps_), "fit", f.X, 2, f.y,
                                  f.final_params, NoRet)>>,
                SelfVal, f.touched \cup {last_step.id})
    ELSE Effect("ok", f.steps, f.calls, SelfVal, f.touched)

fit_transform(steps_, mem, X, y, kw) ==
    LET last_step == _final_estimator(steps_)
        f == _fit(steps_, mem, X, y, kw)
        n == FinalIdx(steps_)
    IN
    IF f.outcome /= "ok"
    THEN Effect(f.outcome, f.steps, f.calls, NoVal, f.touched)
    ELSE IF last_step.kind = "passthrough"
    THEN Effect("ok", f.steps, f.calls, Array(f.X), f.touched)
    ELSE IF HasAttr(last_step, "fit_transform")
    THEN Effect("ok", WithFinalFitted(f.steps),
                f.calls \o <<Call(n, "fit_transform", f.X, 2, f.y,
                                  f.final_params, NoRet)>>,
                Array(MapRows(f.X)), f.touched \cup {last_step.id})
    ELSE IF ~HasAttr(last_step, "transform")
    THEN Effect("AttributeError", WithFinalFitted(f.steps),
                f.calls \o <<Call(n, "fit", f.X, 2, f.y,
                                  f.final_params, NoRet)>>,
                NoVal, f.touched \cup {last_step.id})
    ELSE Effect("ok", WithFinalFitted(f.steps),
                f.calls \o <<Call(n, "fit", f.X, 2, f.y,
                                  f.final_params, NoRet),
                             Call(n, "transform", f.X, 1, EmptyData, {},
                                  NoRet)>>,
                Array(MapRows(f.X)), f.touched \cup {last_step.id})

fit_resample(steps_, mem, X, y, kw) ==
    LET last_step == _final_estimator(steps_)
        f == _fit(steps_, mem, X, y, kw)
        n == FinalIdx(steps_)
    IN
    IF f.outcome /= "ok"
    THEN Effect(f.outcome, f.steps, f.calls, NoVal, f.touched)
    ELSE IF last_step.kind = "passthrough"
    THEN Effect("ok", f.steps, f.calls, Array(f.X), f.touched)
    ELSE IF HasAttr(last_step, "fit_resample")
    THEN Effect("ok", WithFinalFitted(f.steps),
                f.calls \o <<Call(n, "fit_resample", f.X, 2, f.y,
                                  f.final_params, NoRet)>>,
                Pair(ResamplerFitResample(f.X, f.y).X,
                     ResamplerFitResample(f.X, f.y).y),
                f.touched \cup {last_step.id})
    ELSE Effect("ok", f.steps, f.calls, NoVal, f.touched)

\* @if_delegate_has_method(delegate="_final_estimator")
fit_predict(steps_, mem, X, y, kw) ==
    LET f == _fit(steps_, mem, X, y, kw)
        n == FinalIdx(steps_)
    IN
    IF ~HasAttr(_final_estimator(steps_), "fit_predict")
    THEN Raise("AttributeError", steps_)
    ELSE IF f.outcome /= "ok"
    THEN Effect(f.outcome, f.steps, f.calls, NoVal, f.touched)
    ELSE Effect("ok", WithFinalFitted(f.steps),
                f.calls \o <<Call(n, "fit_predict", f.X, 2, f.y,
                                  f.final_params, NoRet)>>,
                [shape |-> "pred", X |-> PredictRows(f.X), y |-> EmptyData],
                f.touched \cup {f.steps[n].est.id})

\* PredictStep that refits: fit_transform instead of transform on a
\* transformer
PredictStepRefit(st, steps_, idx) ==
    LET transform_ == steps_[idx].est IN
    IF IsPassthrough(transform_) THEN st
    ELSE IF ~HasAttr(transform_, "transform")
    THEN [st EXCEPT !.outcome = "AttributeError"]
    ELSE IF transform_.raises
    THEN [st EXCEPT !.outcome = "StepError",
                    !.calls = @ \o <<Call(idx, "transform", st.X, 1,
                                          EmptyData, {}, NoRet)>>]
    ELSE IF HasAttr(transform_, "fit_resample")
    THEN LET r == ResamplerTransform(transform_, st.X)
             c == Call(idx, "transform", st.X, 1, EmptyData, {},
                       [to_keep_ind |-> r.to_keep_ind,
                        outliers |-> r.outliers])
         IN  IF r.to_keep_ind.some
             THEN [st EXCEPT !.X = r.X, !.calls = @ \o <<c>>,
                             !.wrote = TRUE,
                             !.to_keep_ind = r.to_keep_ind,
                             !.outliers = r.outliers]
             ELSE [st EXCEPT !.X = r.X, !.calls = @ \o <<c>>]
    ELSE [st EXCEPT !.X = MapRows(st.X),
                    !.calls = @ \o <<Call(idx, "fit_transform", st.X, 1,
                                          EmptyData, {}, NoRet)>>]

\* PredictStep without the test "to_keep_ind is not None"
PredictStepUnguarded(st, steps_, idx) ==
    LET transform_ == steps_[idx].est IN
    IF IsPassthrough(transform_) THEN st
    ELSE IF ~HasAttr(transform_, "transform")
    THEN [st EXCEPT !.outcome = "AttributeError"]
    ELSE IF transform_.raises
    THEN [st EXCEPT !.outcome = "StepError",
                    !.calls = @ \o <<Call(idx, "transform", st.X, 1,
                                          EmptyData, {}, NoRet)>>]
    ELSE IF HasAttr(transform_, "fit_resample")
    THEN LET r == ResamplerTransform(transform_, st.X)
             c == Call(idx, "transform", st.X, 1, EmptyData, {},
                       [to_keep_ind |-> r.to_keep_ind,
                        outliers |-> r.outliers])
         IN  [st EXCEPT !.X = r.X, !.calls = @ \o <<c>>,
                        !.wrote = TRUE,
                        !.to_keep_ind = r.to_keep_ind,
                        !.outliers = r.outliers]
    ELSE [st EXCEPT !.X = MapRows(st.X),
                    !.calls = @ \o <<Call(idx, "transform", st.X, 1,
                                          EmptyData, {}, NoRet)>>]

\* PredictStep that records the indices of a resampler but hands the
\* unfiltered rows on
PredictStepKeepsRows(st, steps_, idx) ==
    LET transform_ == steps_[idx].est IN
    IF IsPassthrough(transform_) THEN st
    ELSE IF ~HasAttr(transform_, "transform")
    THEN [st EXCEPT !.outcome = "AttributeError"]
    ELSE IF transform_.raises
    THEN [st EXCEPT !.outcome = "StepError",
                    !.calls = @ \o <<Call(idx, "transform", st.X, 1,
                                          EmptyData, {}, NoRet)>>]
    ELSE IF HasAttr(transform_, "fit_resample")
    THEN LET r == ResamplerTransform(transform_, st.X)
             c == Call(idx, "transform", st.X, 1, EmptyData, {},
                       [to_keep_ind |-> r.to_keep_ind,
                        outliers |-> r.outliers])
         IN  IF r.to_keep_ind.some
             THEN [st EXCEPT !.calls = @ \o <<c>>,
                             !.wrote = TRUE,
                             !.to_keep_ind = r.to_keep_ind,
                             !.outliers = r.outliers]
             ELSE [st EXCEPT !.calls = @ \o <<c>>]
    ELSE [st EXCEPT !.X = MapRows(st.X),
                    !.calls = @ \o <<Call(idx, "transform", st.X, 1,
                                          EmptyData, {}, NoRet)>>]

\* PredictStep over a loop that does not filter the placeholders out
PredictStepNoSkip(st, steps_, idx) ==
    LET transform_ == steps_[idx].est IN
    IF ~HasAttr(transform_, "transform")
    THEN [st EXCEPT !.outcome = "AttributeError"]
    ELSE IF transform_.raises
    THEN [st EXCEPT !.outcome = "StepError",
                    !.calls = @ \o <<Call(idx, "transform", st.X, 1,
                                          EmptyData, {}, NoRet)>>]
    ELSE IF HasAttr(transform_, "fit_resample")
    THEN LET r == ResamplerTransform(transform_, st.X)
             c == Call(idx, "transform", st.X, 1, EmptyData, {},
                       [to_keep_ind |-> r.to_keep_ind,
                        outliers |-> r.outliers])
         IN  IF r.to_keep_ind.some
             THEN [st EXCEPT !.X = r.X, !.calls = @ \o <<c>>,
                             !.wrote = TRUE,
                             !.to_keep_ind = r.to_keep_ind,
                             !.outliers = r.outliers]
             ELSE [st EXCEPT !.X = r.X, !.calls = @ \o <<c>>]
    ELSE [st EXCEPT !.X = MapRows(st.X),
                    !.calls = @ \o <<Call(idx, "transform", st.X, 1,
                                          EmptyData, {}, NoRet)>>]

\* One iteration of the loop of predict and predict_proba over
\* self._iter(with_final=False, filter_resample=False), in the running
\* state st = [outcome, X, calls, wrote, to_keep_ind, outliers].
PredictStep(st, steps_, idx) ==
    LET transform_ == steps_[idx].est IN
    IF IsPassthrough(transform_) THEN st
    ELSE IF ~HasAttr(transform_, "transform")
    THEN [st EXCEPT !.outcome = "AttributeError"]
    ELSE IF transform_.raises
    THEN [st EXCEPT !.outcome = "StepError",
                    !.calls = @ \o <<Call(idx, "transform", st.X, 1,
                                          EmptyData, {}, NoRet)>>]
    ELSE IF HasAttr(transform_, "fit_resample")
    THEN LET r == ResamplerTransform(transform_, st.X)
             c == Call(idx, "transform", st.X, 1, EmptyData, {},
                       [to_keep_ind |-> r.to_keep_ind,
                        outliers |-> r.outliers])
         IN  IF r.to_keep_ind.some
             THEN [st EXCEPT !.X = r.X, !.calls = @ \o <<c>>,
                             !.wrote = TRUE,
                             !.to_keep_ind = r.to_keep_ind,
                             !.outliers = r.outliers]
             ELSE [st EXCEPT !.X = r.X, !.calls = @ \o <<c>>]
    ELSE [st EXCEPT !.X = MapRows(st.X),
                    !.calls = @ \o <<Call(idx, "transform", st.X, 1,
                                          EmptyData, {}, NoRet)>>]

RECURSIVE PredictLoop(_, _, _)
PredictLoop(st, steps_, idx) ==
    IF idx > Len(steps_) - 1 \/ st.outcome /= "ok" THEN st
    ELSE PredictLoop(PredictStep(st, steps_, idx), steps_, idx + 1)

\* PredictWith without the condition on the final estimator's method
PredictWithUnguarded(steps_, X, method, shape) ==
    LET st == PredictLoop([outcome |-> "ok", X |-> X, calls |-> << >>,
                           wrote |-> FALSE, to_keep_ind |-> NoneVal,
                           outliers |-> NoneVal], steps_, 1)
        n == FinalIdx(steps_)
        base == Effect(st.outcome, steps_, st.calls, NoVal, {})
        written == [base EXCEPT !.wrote = st.wrote,
                                !.to_keep_ind = st.to_keep_ind,
                                !.outliers = st.outliers]
    IN
    IF st.outcome /= "ok" THEN written
    ELSE IF ~HasAttr(steps_[n].est, method)
    THEN [written EXCEPT !.outcome = "AttributeError"]
    ELSE [written EXCEPT
            !.calls = @ \o <<Call(n, method, st.X, 1, EmptyData, {},
                                  NoRet)>>,
            !.val = [shape |-> shape, X |-> PredictRows(st.X),
                     y |-> EmptyData]]

\* the common body of predict and predict_proba; method is the method of
\* the final estimator the call ends with
PredictWith(steps_, X, method, shape) ==
    LET st == PredictLoop([outcome |-> "ok", X |-> X, calls |-> << >>,
                           wrote |-> FALSE, to_keep_ind |-> NoneVal,
                           outliers |-> NoneVal], steps_, 1)
        n == FinalIdx(steps_)
        base == Effect(st.outcome, steps_, st.calls, NoVal, {})
        written == [base EXCEPT !.wrote = st.wrote,
                                !.to_keep_ind = st.to_keep_ind,
                                !.outliers = st.outliers]
    IN
    IF ~HasAttr(_final_estimator(steps_), method)
    THEN Raise("AttributeError", steps_)
    ELSE IF st.outcome /= "ok" THEN written
    ELSE [written EXCEPT
            !.calls = @ \o <<Call(n, method, st.X, 1, EmptyData, {},
                                  NoRet)>>,
            !.val = [shape |-> shape, X |-> PredictRows(st.X),
                     y |-> EmptyData]]

predict(steps_, X) == PredictWith(steps_, X, "predict", "pred")

predict_proba(steps_, X) == PredictWith(steps_, X, "predict_proba", "proba")

\* One iteration of the loop of _transform over self._iter(): the steps,
\* the last one included, that are neither placeholders nor resamplers.
\* Each is called as transform(Xt, y) and its result unpacked as a pair.
TransformStep(st, steps_, idx) ==
    LET transform_ == steps_[idx].est IN
    IF IsPassthrough(transform_) \/ HasAttr(transform_, "fit_resample")
    THEN st
    ELSE IF ~HasAttr(transform_, "transform")
    THEN [st EXCEPT !.outcome = "AttributeError"]
    ELSE IF transform_.raises
    THEN [st EXCEPT !.outcome = "StepError",
                    !.calls = @ \o <<Call(idx, "transform", st.X, 2, st.y,
                                          {}, NoRet)>>]
    ELSE [st EXCEPT !.X = MapRows(st.X),
                    !.calls = @ \o <<Call(idx, "transform", st.X, 2, st.y,
                                          {}, NoRet)>>]

RECURSIVE TransformLoop(_, _, _)
TransformLoop(st, steps_, idx) ==
    IF idx > Len(steps_) \/ st.outcome /= "ok" THEN st
    ELSE TransformLoop(TransformStep(st, steps_, idx), steps_, idx + 1)

_transform(steps_, X, y) ==
    LET st == TransformLoop([outcome |-> "ok", X |-> X, y |-> y,
                             calls |-> << >>], steps_, 1)
    IN  IF st.outcome /= "ok"
        THEN Effect(st.outcome, steps_, st.calls, NoVal, {})
        ELSE Effect("ok", steps_, st.calls, Pair(st.X, st.y), {})

\* the transform property followed by the call of what it returns
transform(steps_, X) ==
    IF /\ _final_estimator(steps_).kind /= "passthrough"
       /\ ~HasAttr(_final_estimator(steps_), "transform")
    THEN Raise("AttributeError", steps_)
    ELSE _transform(steps_, X, EmptyData)

(***************************************************************************)
(* The pipelines and the inputs                                            *)
(***************************************************************************)
\* intermediate steps a user may supply
Transformer == Estimator({"fit", "fit_transform", "transform"}, FALSE, FALSE)
Resampler == Estimator({"fit_resample", "transform"}, FALSE, FALSE)
LazyResampler ==
    Estimator({"fit", "fit_transform", "transform", "fit_resample"},
              FALSE, TRUE)
NoCaps == Estimator({}, FALSE, FALSE)
NestedPipeline == Estimator({"fit", "fit_transform", "transform"}, TRUE, FALSE)
NestedPredictor == Estimator({"fit", "fit_transform"}, TRUE, FALSE)

\* the kinds every position may hold, and the kinds at most one position of
\* a step list holds
\* a transformer and a resampler whose methods raise
FailingTransformer == Raising(Transformer)
FailingResampler == Raising(Resampler)

RegularKinds == {Transformer, Resampler}
IrregularKinds ==
    {LazyResampler, NoCaps, NestedPipeline, NestedPredictor,
     PassthroughStep, NoneStep, FailingTransformer, FailingResampler}
IntermediateKinds == RegularKinds \cup IrregularKinds

\* final steps a user may supply
Classifier ==
    Estimator({"fit", "predict", "predict_proba", "fit_predict"}, FALSE, FALSE)
Clusterer ==
    Estimator({"fit", "fit_transform", "transform", "predict"}, FALSE, FALSE)
FinalSampler == Estimator({"fit", "transform", "fit_resample"}, FALSE, FALSE)

FinalKinds == {Classifier, Clusterer, FinalSampler, PassthroughStep}

\* the step lists: 1..MaxInter intermediate steps and a final step, named
\* by their position
StepLists ==
    UNION {
        {[i \in 1..(n + 1) |->
            [name |-> i,
             est |-> [(IF i = n + 1 THEN fin ELSE inter[i]) EXCEPT !.id = i]]]
         : inter \in {f \in [1..n -> IntermediateKinds] :
                        Cardinality({i \in 1..n : f[i] \in IrregularKinds}) <= 1},
           fin \in FinalKinds}
        : n \in 1..MaxInter}

\* the data sets: 1..MaxRows rows, no two rows alike
DataSets ==
    UNION {{X \in [1..n -> 1..MaxVal] :
              \A i, j \in 1..n : X[i] = X[j] => i = j} : n \in 1..MaxRows}

\* the training sets: the data sets of MaxRows rows
TrainSets == {X \in DataSets : Len(X) = MaxRows}

\* the label of a row of a data set
LabelOf(x) == x + MaxVal
LabelsOf(X) == [i \in 1..Len(X) |-> LabelOf(X[i])]

\* keyword arguments of the fit methods: a name without '__', a name with
\* the prefix of no step ("ghost", name 0), a name with the prefix of step nm
NoSepParam == [sep |-> FALSE, step |-> 0, param |-> "sample_weight"]
GhostParam == [sep |-> TRUE, step |-> 0, param |-> "p"]
StepParam(nm) == [sep |-> TRUE, step |-> nm, param |-> "p"]

FitParams(steps_) ==
    {<< >>,
     <<StepParam(Len(steps_)), NoSepParam>>,
     <<GhostParam, NoSepParam>>,
     <<StepParam(1), StepParam(Len(steps_))>>}

(***************************************************************************)
(* The baseline (non-resampling) pipeline of the host framework, for step  *)
(* lists without resamplers: the result [outcome, calls, val] of each      *)
(* public operation.                                                       *)
(***************************************************************************)
\* baseline validation: an intermediate step has fit or fit_transform, and
\* transform; the final step has fit
BaselineValidate(steps_) ==
    IF /\ \A i \in 1..(Len(steps_) - 1) :
             \/ IsPassthrough(steps_[i].est)
             \/ /\ (\/ HasAttr(steps_[i].est, "fit")
                    \/ HasAttr(steps_[i].est, "fit_transform"))
                /\ HasAttr(steps_[i].est, "transform")
       /\ ValidateFinal(steps_[Len(steps_)].est) = "ok"
    THEN "ok" ELSE "TypeError"

RECURSIVE BaselineFitLoop(_, _, _, _)
BaselineFitLoop(st, steps_, fps, idx) ==
    IF idx > Len(steps_) - 1 \/ st.outcome /= "ok" THEN st
    ELSE IF IsPassthrough(steps_[idx].est)
    THEN BaselineFitLoop(st, steps_, fps, idx + 1)
    ELSE LET r == _fit_transform_one(steps_[idx].est, idx, st.X, st.y,
                                     fps[steps_[idx].name])
         IN  BaselineFitLoop([st EXCEPT !.outcome = r.outcome,
                                        !.X = r.X,
                                        !.calls = @ \o r.calls],
                             steps_, fps, idx + 1)

\* baseline _fit: [outcome, X, y, calls, final_params]
BaselineFitSteps(steps_, X, y, kw) ==
    LET st0 == [outcome |-> "ok", X |-> X, y |-> y, calls |-> << >>,
                final_params |-> {}]
        routed == RouteFitParams(InitFitParams(steps_), kw, 1)
    IN
    IF BaselineValidate(steps_) /= "ok"
    THEN [st0 EXCEPT !.outcome = "TypeError"]
    ELSE IF routed.outcome /= "ok"
    THEN [st0 EXCEPT !.outcome = routed.outcome]
    ELSE LET st == BaselineFitLoop(st0, steps_, routed.fps, 1)
         IN  IF st.outcome /= "ok" \/ IsPassthrough(steps_[Len(steps_)].est)
             THEN st
             ELSE [st EXCEPT !.final_params =
                                routed.fps[steps_[Len(steps_)].name]]

BaselineResult(outcome, calls_, val) ==
    [outcome |-> outcome, calls |-> calls_, val |-> val]

\* baseline transform of the rows by the steps idx.. of the list, each
\* called as transform(Xt)
RECURSIVE BaselineTransformLoop(_, _, _, _)
BaselineTransformLoop(st, steps_, idx, upto) ==
    IF idx > upto \/ st.outcome /= "ok" THEN st
    ELSE IF IsPassthrough(steps_[idx].est)
    THEN BaselineTransformLoop(st, steps_, idx + 1, upto)
    ELSE IF ~HasAttr(steps_[idx].est, "transform")
    THEN [st EXCEPT !.outcome = "AttributeError"]
    ELSE IF steps_[idx].est.raises
    THEN [st EXCEPT !.outcome = "StepError",
                    !.calls = @ \o <<Call(idx, "transform", st.X, 1,
                                          EmptyData, {}, NoRet)>>]
    ELSE BaselineTransformLoop(
            [st EXCEPT !.X = MapRows(st.X),
                       !.calls = @ \o <<Call(idx, "transform", st.X, 1,
                                             EmptyData, {}, NoRet)>>],
            steps_, idx + 1, upto)

BaselineFitOp(op, steps_, X, y, kw) ==
    LET f == BaselineFitSteps(steps_, X, y, kw)
        n == Len(steps_)
        fin == _final_estimator(steps_)
        final(method) == Call(n, method, f.X, 2, f.y, f.final_params, NoRet)
    IN
    IF op = "fit_predict" /\ ~HasAttr(fin, "fit_predict")
    THEN BaselineResult("AttributeError", << >>, NoVal)
    ELSE IF f.outcome /= "ok" THEN BaselineResult(f.outcome, f.calls, NoVal)
    ELSE IF op = "fit_predict"
    THEN BaselineResult("ok", f.calls \o <<final("fit_predict")>>,
                        [shape |-> "pred", X |-> PredictRows(f.X),
                         y |-> EmptyData])
    ELSE IF op = "fit"
    THEN BaselineResult("ok",
                        IF fin.kind = "passthrough" THEN f.calls
                        ELSE f.calls \o <<final("fit")>>,
                        SelfVal)
    \* fit_transform
    ELSE IF fin.kind = "passthrough"
    THEN BaselineResult("ok", f.calls, Array(f.X))
    ELSE IF HasAttr(fin, "fit_transform")
    THEN BaselineResult("ok", f.calls \o <<final("fit_transform")>>,
                        Array(MapRows(f.X)))
    ELSE IF ~HasAttr(fin, "transform")
    THEN BaselineResult("AttributeError", f.calls \o <<final("fit")>>, NoVal)
    ELSE BaselineResult("ok",
                        f.calls \o <<final("fit"),
                                     Call(n, "transform", f.X, 1, EmptyData,
                                          {}, NoRet)>>,
                        Array(MapRows(f.X)))

BaselineApplyOp(op, steps_, X) ==
    LET n == Len(steps_)
        fin == _final_estimator(steps_)
        st0 == [outcome |-> "ok", X |-> X, calls |-> << >>]
        st == BaselineTransformLoop(st0, steps_, 1,
                                    IF op = "transform" THEN n ELSE n - 1)
    IN
    IF op = "transform"
    THEN IF fin.kind /= "passthrough" /\ ~HasAttr(fin, "transform")
         THEN BaselineResult("AttributeError", << >>, NoVal)
         ELSE IF st.outcome /= "ok"
         THEN BaselineResult(st.outcome, st.calls, NoVal)
         ELSE BaselineResult("ok", st.calls, Array(st.X))
    ELSE IF ~HasAttr(fin, op)
    THEN BaselineResult("AttributeError", << >>, NoVal)
    ELSE IF st.outcome /= "ok"
    THEN BaselineResult(st.outcome, st.calls, NoVal)
    ELSE BaselineResult("ok",
                        st.calls \o <<Call(n, op, st.X, 1, EmptyData, {},
                                           NoRet)>>,
                        [shape |-> IF op = "predict" THEN "pred" ELSE "proba",
                         X |-> PredictRows(st.X), y |-> EmptyData])

Baseline(op, steps_, X, y, kw) ==
    IF op \in {"fit", "fit_transform", "fit_predict"}
    THEN BaselineFitOp(op, steps_, X, y, kw)
    ELSE BaselineApplyOp(op, steps_, X)

(***************************************************************************)
(* State                                                                   *)
(***************************************************************************)
VARIABLES
    steps,        \* self.steps: sequence of [name, est]
    memory,       \* whether a caching location is configured (self.memory)
    supplied,     \* the instances the user supplied, by position
    to_keep_ind,  \* self.to_keep_ind
    outliers,     \* self.outliers
    last          \* the most recent call: operation, arguments, outcome

vars == <<steps, memory, supplied, to_keep_ind, outliers, last>>

Init ==
    /\ steps \in StepLists
    /\ memory \in BOOLEAN
    /\ supplied = [i \in 1..Len(steps) |-> steps[i].est]
    /\ to_keep_ind = NoneVal
    /\ outliers = NoneVal
    /\ last = [op |-> "init", X |-> EmptyData, y |-> EmptyData, kw |-> << >>,
               outcome |-> "ok", calls |-> << >>, val |-> NoVal]

\* the state after a call with effect e
Apply(op, X, y, kw, e) ==
    /\ steps' = e.steps
    /\ supplied' = [i \in 1..Len(supplied) |->
                      IF i \in e.touched THEN Fitted(supplied[i])
                      ELSE supplied[i]]
    /\ to_keep_ind' = IF e.wrote THEN e.to_keep_ind ELSE to_keep_ind
    /\ outliers' = IF e.wrote THEN e.outliers ELSE outliers
    /\ last' = [op |-> op, X |-> X, y |-> y, kw |-> kw,
                outcome |-> e.outcome, calls |-> e.calls, val |-> e.val]
    /\ UNCHANGED memory

Fit ==
    \E X \in TrainSets, kw \in FitParams(steps) :
        Apply("fit", X, LabelsOf(X), kw, fit(steps, memory, X, LabelsOf(X), kw))

FitTransform ==
    \E X \in TrainSets, kw \in FitParams(steps) :
        Apply("fit_transform", X, LabelsOf(X), kw,
              fit_transform(steps, memory, X, LabelsOf(X), kw))

FitResample ==
    \E X \in TrainSets, kw \in FitParams(steps) :
        Apply("fit_resample", X, LabelsOf(X), kw,
              fit_resample(steps, memory, X, LabelsOf(X), kw))

FitPredict ==
    \E X \in TrainSets, kw \in FitParams(steps) :
        Apply("fit_predict", X, LabelsOf(X), kw,
              fit_predict(steps, memory, X, LabelsOf(X), kw))

Predict ==
    \E X \in DataSets :
        Apply("predict", X, EmptyData, << >>, predict(steps, X))

PredictProba ==
    \E X \in DataSets :
        Apply("predict_proba", X, EmptyData, << >>, predict_proba(steps, X))

Transform ==
    \E X \in DataSets :
        Apply("transform", X, EmptyData, << >>, transform(steps, X))

Next ==
    \/ Fit
    \/ FitTransform
    \/ FitResample
    \/ FitPredict
    \/ Predict
    \/ PredictProba
    \/ Transform

Spec == Init /\ [][Next]_vars

(***************************************************************************)
(* Properties                                                              *)
(***************************************************************************)
FitOps == {"fit", "fit_transform", "fit_resample", "fit_predict"}
PredictOps == {"predict", "predict_proba"}
FitMethods == {"fit", "fit_transform", "fit_resample", "fit_predict"}

\* positions of the intermediate steps
Inter(steps_) == 1..(Len(steps_) - 1)

\* the calls made on step i
CallsOn(calls_, i) == SelectSeq(calls_, LAMBDA c : c.step = i)

\* the step has a transform capability and a resample capability
HasBoth(t) ==
    /\ HasAttr(t, "fit_resample")
    /\ (HasAttr(t, "transform") \/ HasAttr(t, "fit_transform"))

\* an intermediate step validation has a reason to reject other than
\* having both capabilities
Unacceptable(t) ==
    /\ t.kind = "obj"
    /\ \/ t.isPipe
       \/ t.caps \cap {"fit", "fit_transform", "fit_resample"} = {}
       \/ t.caps \cap {"transform", "fit_resample"} = {}

\* fit_predict exists on the pipeline only when the final step has it
Callable(op, steps_) ==
    op = "fit_predict" => HasAttr(_final_estimator(steps_), "fit_predict")

KnownNames(steps_) ==
    {steps_[i].name : i \in {j \in 1..Len(steps_) :
                                steps_[j].est.kind /= "None"}}

HasNoSep(kw) == \E k \in 1..Len(kw) : ~kw[k].sep

\* the position of the first keyword argument without '__'
FirstNoSep(kw) ==
    CHOOSE k \in 1..Len(kw) : ~kw[k].sep /\ \A j \in 1..(k - 1) : kw[j].sep

\* C5 as stated: a fit-style call with a keyword argument whose name has no
\* '__', on a pipeline whose steps pass validation, raises ValueError.
C5_NoSepValueError ==
    (/\ last.op \in FitOps
     /\ Callable(last.op, steps)
     /\ _validate_steps(steps) = "ok"
     /\ HasNoSep(last.kw)) => last.outcome = "ValueError"

\* C5 amended: such a call raises before any step is invoked and before any
\* entry of the step list is replaced; the error is ValueError when every
\* keyword argument before the first one without '__' is prefixed with the
\* name of a step that is not None, and KeyError otherwise.
C5_BadParamRaisesFirst ==
    [][(/\ last'.op \in FitOps
        /\ Callable(last'.op, steps)
        /\ _validate_steps(steps) = "ok"
        /\ HasNoSep(last'.kw))
       => /\ last'.outcome =
                (IF \A j \in 1..(FirstNoSep(last'.kw) - 1) :
                        last'.kw[j].step \in KnownNames(steps)
                 THEN "ValueError" ELSE "KeyError")
          /\ last'.calls = << >>
          /\ steps' = steps
          /\ supplied' = supplied]_vars

\* a ValueError for an argument without '__' that follows a routed one
C5_Witness ==
    /\ last.op \in FitOps
    /\ last.outcome = "ValueError"
    /\ Len(last.kw) = 2
    /\ last.kw[1].sep /\ last.kw[1].step \in KnownNames(steps)
    /\ ~last.kw[2].sep
    /\ last.calls = << >>

\* an intermediate step with none of fit, fit_transform, fit_resample and
\* none of transform, fit_resample
LacksBoth(t) ==
    /\ t.kind = "obj"
    /\ t.caps \cap {"fit", "fit_transform", "fit_resample"} = {}
    /\ t.caps \cap {"transform", "fit_resample"} = {}

\* C9: a fit-style call on a pipeline with an intermediate step that lacks
\* both the fit-like and the transform/resample-like capability raises
\* TypeError with no call made on any step and the step list as it was,
\* wherever the step is.
C9_LackingStepRejected ==
    [][(/\ last'.op \in FitOps
        /\ Callable(last'.op, steps)
        /\ \E i \in Inter(steps) : LacksBoth(steps[i].est))
       => /\ last'.outcome = "TypeError"
          /\ last'.calls = << >>
          /\ steps' = steps
          /\ supplied' = supplied]_vars

\* fit rejected for a lacking step that stands after a valid step
C9_Witness ==
    /\ last.op = "fit"
    /\ last.outcome = "TypeError"
    /\ Len(steps) = 3
    /\ LacksBoth(steps[2].est)
    /\ ~Unacceptable(steps[1].est) /\ steps[1].est.kind = "obj"

\* C10: a fit-style call on a pipeline with a pipeline as an intermediate
\* step raises TypeError with no call made on any step and the step list as
\* it was, whatever methods the nested pipeline has.
C10_NestedPipelineRejected ==
    [][(/\ last'.op \in FitOps
        /\ Callable(last'.op, steps)
        /\ \E i \in Inter(steps) : steps[i].est.isPipe)
       => /\ last'.outcome = "TypeError"
          /\ last'.calls = << >>
          /\ steps' = steps
          /\ supplied' = supplied]_vars

\* fit rejected for a nested pipeline that has fit and transform
C10_Witness ==
    /\ last.op = "fit"
    /\ last.outcome = "TypeError"
    /\ \E i \in Inter(steps) :
          /\ steps[i].est.isPipe
          /\ HasAttr(steps[i].est, "fit")
          /\ HasAttr(steps[i].est, "transform")
    /\ \A i \in Inter(steps) : ~LacksBoth(steps[i].est)

\* every estimator instance of the step list has been fitted
PipelineFitted(steps_) ==
    \A i \in 1..Len(steps_) :
        steps_[i].est.kind = "obj" => steps_[i].est.fitted

\* the step at position i is a resample-capable intermediate step
IsResampleStep(steps_, i) ==
    i \in Inter(steps_) /\ HasAttr(steps_[i].est, "fit_resample")

\* the positions in the calls of a predict-style call at which a
\* resample-capable step returned a to_keep_ind that is not None
Reports(steps_, calls_) ==
    {k \in 1..Len(calls_) :
        /\ IsResampleStep(steps_, calls_[k].step)
        /\ calls_[k].ret.to_keep_ind.some}

Max(S) == CHOOSE m \in S : \A k \in S : k <= m

\* C6: predict and predict_proba call only transform on the intermediate
\* steps and only predict / predict_proba on the final step, and leave the
\* step list, the supplied instances and the caching option as they were.
C6_PredictNeverRefits ==
    [][last'.op \in PredictOps
       => /\ steps' = steps
          /\ supplied' = supplied
          /\ memory' = memory
          /\ \A k \in 1..Len(last'.calls) :
                IF last'.calls[k].step = Len(steps)
                THEN last'.calls[k].method = last'.op
                ELSE last'.calls[k].method = "transform"]_vars

\* a predict on a fitted pipeline that ran a transformer and a resampler
C6_Witness ==
    /\ last.op = "predict"
    /\ last.outcome = "ok"
    /\ PipelineFitted(steps)
    /\ Len(last.calls) = 3
    /\ \E i \in Inter(steps) : IsResampleStep(steps, i)
    /\ \E i \in Inter(steps) :
          steps[i].est.kind = "obj" /\ ~IsResampleStep(steps, i)

\* C7 as stated: after a predict-style call on a pipeline with a
\* resample-capable step, to_keep_ind and outliers are the values a
\* resample-capable step returned during that call.
C7_AlwaysOverwritten ==
    (/\ last.op \in PredictOps
     /\ last.outcome = "ok"
     /\ \E i \in Inter(steps) : IsResampleStep(steps, i))
    => \E k \in 1..Len(last.calls) :
          /\ IsResampleStep(steps, last.calls[k].step)
          /\ to_keep_ind = last.calls[k].ret.to_keep_ind
          /\ outliers = last.calls[k].ret.outliers

\* C7 amended: a predict-style call overwrites to_keep_ind and outliers
\* with the values returned by the last resample-capable step whose
\* to_keep_ind is not None; when no resample-capable step returned one
\* during the call, both keep the values they had before the call.
C7_OverwrittenWhenReported ==
    [][last'.op \in PredictOps
       => IF Reports(steps, last'.calls) = {}
          THEN to_keep_ind' = to_keep_ind /\ outliers' = outliers
          ELSE LET k == Max(Reports(steps, last'.calls))
               IN  /\ to_keep_ind' = last'.calls[k].ret.to_keep_ind
                   /\ outliers' = last'.calls[k].ret.outliers]_vars

\* a predict-style call during which the only resample-capable step
\* returned None, with the indices of an earlier call still recorded
C7_Witness ==
    /\ last.op \in PredictOps
    /\ last.outcome = "ok"
    /\ \E k \in 1..Len(last.calls) : IsResampleStep(steps, last.calls[k].step)
    /\ Reports(steps, last.calls) = {}
    /\ to_keep_ind.some

DelegatedOps == {"fit_predict", "predict", "predict_proba"}
SixOps == DelegatedOps \cup {"fit_transform", "fit_resample", "transform"}

Refused ==
    /\ last'.outcome = "AttributeError"
    /\ last'.calls = << >>
    /\ last'.val = NoVal
    /\ UNCHANGED <<steps, supplied, to_keep_ind, outliers>>

RECURSIVE RowThrough(_, _, _)
RowThrough(steps_, x, i) ==
    IF i > Len(steps_) - 1 THEN x
    ELSE IF steps_[i].est.kind = "obj" /\ ~IsResampleStep(steps_, i)
    THEN RowThrough(steps_, TransformRow(x), i + 1)
    ELSE RowThrough(steps_, x, i + 1)

\* the entries of a sequence, as a set
Range(s) == {s[k] : k \in 1..Len(s)}

TransformOnly(steps_) ==
    \A i \in Inter(steps_) :
        /\ steps_[i].est.kind = "obj"
        /\ ~steps_[i].est.isPipe
        /\ HasAttr(steps_[i].est, "transform")
        /\ HasAttr(steps_[i].est, "fit") \/ HasAttr(steps_[i].est, "fit_transform")
        /\ ~HasAttr(steps_[i].est, "fit_resample")

BaselineOps ==
    {"fit", "fit_transform", "fit_predict", "predict", "predict_proba",
     "transform"}

\* C3: on a pipeline whose intermediate steps are all transformers, each
\* of fit, fit_transform, fit_predict, predict, predict_proba and transform
\* makes the calls the baseline pipeline makes, with the same arguments in
\* the same order, and returns what the baseline returns.
C3_MatchesBaseline ==
    (last.op \in BaselineOps /\ TransformOnly(steps))
    => LET b == Baseline(last.op, steps, last.X, last.y, last.kw)
       IN  /\ last.outcome = b.outcome
           /\ last.calls = b.calls
           /\ last.val = b.val

\* the calls of the fit methods among the calls of the last operation
FitCalls == SelectSeq(last.calls, LAMBDA c : c.method \in FitMethods)

\* what the step of fit call c hands on to the next step
OutputOf(steps_, c) ==
    IF HasAttr(steps_[c.step].est, "fit_resample")
    THEN ResamplerFitResample(c.X, c.y)
    ELSE [X |-> MapRows(c.X), y |-> c.y]

\* the fit calls run over the given positions in list order, the first on
\* the arguments of the operation, each next one on the output of the one
\* before
ThreadedOver(positions) ==
    /\ Len(FitCalls) = Cardinality(positions)
    /\ Range([k \in 1..Len(FitCalls) |-> FitCalls[k].step]) = positions
    /\ \A k \in 1..(Len(FitCalls) - 1) :
          /\ FitCalls[k].step < FitCalls[k + 1].step
          /\ FitCalls[k + 1].X = OutputOf(steps, FitCalls[k]).X
          /\ FitCalls[k + 1].y = OutputOf(steps, FitCalls[k]).y
          /\ ~HasAttr(steps[FitCalls[k].step].est, "fit_resample")
                => FitCalls[k + 1].y = FitCalls[k].y
    /\ FitCalls /= << >> => FitCalls[1].X = last.X /\ FitCalls[1].y = last.y

\* C4: a successful fit, fit_transform, fit_resample or fit_predict runs
\* the intermediate steps in list order, each on the features and labels
\* the steps before it produced (a transformer replaces the features only,
\* a resampler both), and fits the final estimator exactly once, after
\* them, on the output of the last intermediate step.
C4_FitThreadsInOrder ==
    (/\ last.op \in FitOps
     /\ last.outcome = "ok"
     /\ steps[Len(steps)].est.kind = "obj")
    => ThreadedOver({i \in 1..Len(steps) : steps[i].est.kind = "obj"})

\* the position of the step the last call of the operation was made on
LastCalled(calls_) == calls_[Len(calls_)].step

\* the entry of a step list after its step has been fitted by _fit
FittedEntry(entry, mem) ==
    IF IsPassthrough(entry.est) THEN entry
    ELSE [entry EXCEPT !.est = Fitted(IF mem THEN clone(@) ELSE @)]

\* C11: a step that raises aborts the call.  When the call of step k raises
\* during fit, fit_transform, fit_resample or fit_predict, the exception
\* reaches the caller after that one call: no later step and not the final
\* estimator is called, the entries before k hold their fitted versions and
\* the entries from k on are as they were.  When the transform of step k
\* raises during predict or predict_proba, the final estimator is not
\* called, the step list is unchanged, and to_keep_ind and outliers hold
\* what the steps before k wrote, or what they held before.  And a call
\* that reaches a raising step never ends otherwise.
C11_FailingStepAborts ==
    [][/\ last'.outcome = "StepError" =>
            /\ last'.calls /= << >>
            /\ last'.val = NoVal
            /\ LET k == LastCalled(last'.calls) IN
               /\ k \in Inter(steps)
               /\ steps[k].est.raises
               /\ Len(CallsOn(last'.calls, k)) = 1
               /\ \A j \in 1..Len(last'.calls) : last'.calls[j].step <= k
               /\ \A i \in 1..(k - 1) : ~steps[i].est.raises
               /\ last'.op \in FitOps =>
                     /\ Len(steps') = Len(steps)
                     /\ \A i \in 1..Len(steps) :
                           steps'[i] = IF i < k
                                       THEN FittedEntry(steps[i], memory)
                                       ELSE steps[i]
                     /\ UNCHANGED <<to_keep_ind, outliers>>
               /\ last'.op \in PredictOps =>
                     /\ steps' = steps
                     /\ \A j \in 1..Len(last'.calls) :
                           last'.calls[j].method = "transform"
                     /\ IF Reports(steps, last'.calls) = {}
                        THEN UNCHANGED <<to_keep_ind, outliers>>
                        ELSE LET w == Max(Reports(steps, last'.calls)) IN
                             /\ last'.calls[w].step < k
                             /\ to_keep_ind' = last'.calls[w].ret.to_keep_ind
                             /\ outliers' = last'.calls[w].ret.outliers
       /\ (/\ last'.op \in FitOps \cup PredictOps
           /\ last'.op \in DelegatedOps
                 => HasAttr(_final_estimator(steps), last'.op)
           /\ last'.op \in FitOps =>
                 /\ _validate_steps(steps) = "ok"
                 /\ RouteFitParams(InitFitParams(steps), last'.kw, 1).outcome
                       = "ok"
           /\ \E i \in Inter(steps) : steps[i].est.raises)
          => last'.outcome = "StepError"
      ]_vars

\* a fit with a caching location in which the second step raised after the
\* first was fitted
C11_Witness ==
    /\ last.op = "fit"
    /\ last.outcome = "StepError"
    /\ memory
    /\ Len(steps) = 3
    /\ steps[2].est.raises
    /\ steps[1].est.kind = "obj" /\ steps[1].est.fitted /\ steps[1].est.clone
    /\ ~steps[2].est.fitted /\ ~steps[2].est.clone
    /\ ~steps[3].est.fitted
    /\ Len(last.calls) = 2

\* a predict in which a resampler wrote its indices and the next step raised
C11_WitnessPredict ==
    /\ last.op = "predict"
    /\ last.outcome = "StepError"
    /\ Len(last.calls) = 2
    /\ last.calls[1].ret.to_keep_ind.some
    /\ to_keep_ind = last.calls[1].ret.to_keep_ind

\* C12: a successful fit, fit_transform, fit_resample or fit_predict leaves
\* at every intermediate position that is not a placeholder the fitted
\* object returned by the one fit call made for that step, under the same
\* name.  With a caching location that object is a clone and the instance
\* the user supplied is not fitted; without one no clone is made and the
\* position holds the instance the user supplied, fitted.  A placeholder
\* stays in place.  No operation changes the number, the order or the
\* names of the steps.
C12_FittedStepsInPlace ==
    [][/\ Len(steps') = Len(steps)
       /\ \A i \in 1..Len(steps) :
             /\ steps'[i].name = steps[i].name
             /\ steps'[i].est.id = steps[i].est.id
       /\ (last'.op \in FitOps /\ last'.outcome = "ok") =>
             \A i \in Inter(steps) :
                IF IsPassthrough(steps[i].est) THEN steps'[i] = steps[i]
                ELSE /\ steps'[i].est.fitted
                     /\ steps'[i].est.id = supplied[i].id
                     /\ Len(SelectSeq(CallsOn(last'.calls, i),
                                      LAMBDA c : c.method \in FitMethods)) = 1
                     /\ memory =>
                           /\ steps'[i].est.clone
                           /\ ~supplied'[i].fitted
                           /\ supplied'[i] = supplied[i]
                     /\ ~memory =>
                           /\ ~steps'[i].est.clone
                           /\ steps'[i].est = supplied'[i]
      ]_vars

\* a successful fit with a caching location: both intermediate
\* positions hold fitted clones, the supplied instances are unfitted, the
\* final estimator was fitted in place
C12_Witness ==
    /\ last.op = "fit"
    /\ last.outcome = "ok"
    /\ memory
    /\ Len(steps) = 3
    /\ \A i \in 1..2 :
          /\ steps[i].est.kind = "obj"
          /\ steps[i].est.clone /\ steps[i].est.fitted
          /\ ~supplied[i].fitted
    /\ supplied[3].fitted /\ steps[3].est = supplied[3]

\* a successful fit without a caching location: the positions hold the
\* supplied instances, fitted
C12_WitnessInPlace ==
    /\ last.op = "fit"
    /\ last.outcome = "ok"
    /\ ~memory
    /\ Len(steps) = 3
    /\ \A i \in 1..3 :
          /\ steps[i].est.kind = "obj"
          /\ steps[i].est.fitted
          /\ steps[i].est = supplied[i]

\* the step list without its entry at position i
Remove(steps_, i) ==
    [j \in 1..(Len(steps_) - 1) |-> IF j < i THEN steps_[j] ELSE steps_[j + 1]]

\* the calls made on the step list without entry i, with the positions of
\* the full list
Renumber(calls_, i) ==
    [k \in 1..Len(calls_) |->
        [calls_[k] EXCEPT !.step = IF @ >= i THEN @ + 1 ELSE @]]

\* predict or predict_proba
PredictOp(op, steps_, X) ==
    IF op = "predict" THEN predict(steps_, X) ELSE predict_proba(steps_, X)

\* the calls of the fit methods among the calls of the operation under way
FitCallsNext == SelectSeq(last'.calls, LAMBDA c : c.method \in FitMethods)

\* C13: an intermediate step that is None or 'passthrough' behaves as if
\* removed.  During fit, fit_transform, fit_resample and fit_predict no
\* method is called on it, its entry stays as it is, and every step that is
\* fitted receives the features and labels the step fitted before it
\* produced (the first one those of the call).  predict and predict_proba
\* make the calls, return the value, end with the outcome and record the
\* indices of the same call on the step list without the entry.
C13_PlaceholderAsRemoved ==
    [][\A i \in Inter(steps) :
          IsPassthrough(steps[i].est) =>
             /\ CallsOn(last'.calls, i) = << >>
             /\ steps'[i] = steps[i]
             /\ last'.op \in FitOps =>
                   \A k \in 1..Len(FitCallsNext) :
                      IF k = 1
                      THEN /\ FitCallsNext[k].X = last'.X
                           /\ FitCallsNext[k].y = last'.y
                      ELSE /\ FitCallsNext[k].X
                                 = OutputOf(steps, FitCallsNext[k - 1]).X
                           /\ FitCallsNext[k].y
                                 = OutputOf(steps, FitCallsNext[k - 1]).y
             /\ last'.op \in PredictOps =>
                   LET e == PredictOp(last'.op, Remove(steps, i), last'.X) IN
                   /\ last'.outcome = e.outcome
                   /\ last'.val = e.val
                   /\ last'.calls = Renumber(e.calls, i)
                   /\ to_keep_ind' = IF e.wrote THEN e.to_keep_ind
                                     ELSE to_keep_ind
                   /\ outliers' = IF e.wrote THEN e.outliers ELSE outliers
      ]_vars

\* a predict through a fitted pipeline of a placeholder, a resampler that
\* removed a row, and a final estimator
C13_Witness ==
    /\ last.op = "predict"
    /\ last.outcome = "ok"
    /\ Len(steps) = 3
    /\ IsPassthrough(steps[1].est)
    /\ IsResampleStep(steps, 2) /\ steps[2].est.fitted
    /\ steps[3].est.fitted
    /\ Len(last.calls) = 2
    /\ Len(last.val.X) < Len(last.X)

\* a fit through a placeholder between two steps
C13_WitnessFit ==
    /\ last.op = "fit"
    /\ last.outcome = "ok"
    /\ Len(steps) = 3
    /\ IsPassthrough(steps[2].est)
    /\ steps[1].est.fitted /\ steps[3].est.fitted
    /\ Len(last.calls) = 2

====
